---- MODULE Spec2Model ----
(***************************************************************************)
(* A model of yahoo_gui_mutliple_srch.py: the retrying HTML table scraper  *)
(* (scrape_yahoo_tables), the per-ticker export (fetch_and_export) and the *)
(* batch handler of the form (on_fetch_batch).                             *)
(*                                                                         *)
(* Python strings are sequences of one-character strings, so that the      *)
(* substring tests and replacements of the source are computed, not        *)
(* assumed.  Three specifications are given:                               *)
(*   SpecScrape  one call of scrape_yahoo_tables with any url, retries and *)
(*               delay, one loop iteration per step;                       *)
(*   SpecExport  one call of fetch_and_export, its frame kept in loc;      *)
(*   Spec        the form: one click of "Fetch & Export All", which runs   *)
(*               fetch_and_export once per ticker of the text box.         *)
(***************************************************************************)
EXTENDS Integers, Sequences, FiniteSets

VARIABLES
    sc,        \* the frame of the running call of scrape_yahoo_tables
    pc,        \* on_fetch_batch: "idle", "call", "returned", "done", "aborted"
    tickers,   \* on_fetch_batch: the parsed ticker list
    idx,       \* on_fetch_batch: index of the ticker the for loop is at
    loc,       \* the frame of fetch_and_export at its end (SpecExport)
    raised,    \* what the last call of fetch_and_export raised, or "none"
    clock,     \* the wall clock (datetime.now), in seconds after midnight
    files,     \* the files under OUTPUT_DIR: records of path and workbook
    calls,     \* the tickers fetch_and_export was invoked with, in order
    failures,  \* the tickers whose failure the except clause logged, in order
    dialog     \* the last message box shown

vars == <<sc, pc, tickers, idx, loc, raised, clock, files, calls, failures, dialog>>

----------------------------------------------------------------------------
(* Bounds of the model.                                                    *)

\* retries of a direct call of scrape_yahoo_tables range over 0..MaxRetries
MaxRetries == 3
\* the initial delay of a direct call ranges over 0..MaxDelay
MaxDelay == 5
\* a scraped table has 1..MaxCols columns
MaxCols == 2
\* seconds the network calls of one fetch_and_export take, sleeps apart
MaxElapsed == 1

----------------------------------------------------------------------------
(* Strings.                                                                *)

Lower == <<"a","b","c","d","e","f","g","h","i","j","k","l","m","n","o","p","q","r","s","t","u","v","w","x","y","z">>
Upper == <<"A","B","C","D","E","F","G","H","I","J","K","L","M","N","O","P","Q","R","S","T","U","V","W","X","Y","Z">>
DigitChars == <<"0","1","2","3","4","5","6","7","8","9">>
Whitespace == {" ", "\n"}

\* str(n) for n >= 0
RECURSIVE Digits(_)
Digits(n) ==
    IF n < 10 THEN <<DigitChars[n + 1]>>
    ELSE Digits(n \div 10) \o <<DigitChars[(n % 10) + 1]>>

\* strftime's %H, %M, %S: two digits, zero padded
TwoDigits(n) == <<DigitChars[(n \div 10) + 1], DigitChars[(n % 10) + 1]>>

\* Python's `sub in s`
Contains(s, sub) ==
    \E i \in 1..(Len(s) - Len(sub) + 1) : SubSeq(s, i, i + Len(sub) - 1) = sub

\* Python's s.replace(old, new) for one-character old and new
Replace(s, old, new) == [i \in 1..Len(s) |-> IF s[i] = old THEN new ELSE s[i]]

UpperChar(c) ==
    IF \E i \in 1..Len(Lower) : Lower[i] = c
    THEN Upper[CHOOSE i \in 1..Len(Lower) : Lower[i] = c]
    ELSE c

\* Python's s.upper()
ToUpper(s) == [i \in 1..Len(s) |-> UpperChar(s[i])]

\* Python's s.strip()
RECURSIVE Strip(_)
Strip(s) ==
    IF s = <<>> THEN s
    ELSE IF s[1] \in Whitespace THEN Strip(Tail(s))
    ELSE IF s[Len(s)] \in Whitespace THEN Strip(SubSeq(s, 1, Len(s) - 1))
    ELSE s

\* Python's s.splitlines(): the lines of s, no empty last line
RECURSIVE SplitLines(_)
SplitLines(s) ==
    IF s = <<>> THEN <<>>
    ELSE IF \E i \in 1..Len(s) : s[i] = "\n"
    THEN LET i == CHOOSE j \in 1..Len(s) :
                      s[j] = "\n" /\ \A k \in 1..(j - 1) : s[k] # "\n"
         IN  <<SubSeq(s, 1, i - 1)>> \o SplitLines(SubSeq(s, i + 1, Len(s)))
    ELSE <<s>>

----------------------------------------------------------------------------
(* The scraper.                                                            *)

DefaultRetries == 3
DefaultDelay == 5
DelayStep == 5

\* pd.DataFrame(): the empty table
NoTable == [header |-> "none", ncols |-> 0]

\* a non-empty scraped table: its first column header is the positional
\* index 0 (the page's table had no header row) or a name
Tables == [header : {"positional", "named"}, ncols : 1..MaxCols]

\* what one GET meets.  status 0: no response (connection error, timeout);
\* parse, for a 2xx body: pd.read_html returns tables, returns the empty
\* list, or raises ValueError
Responses ==
    {[status |-> s, parse |-> "none", table |-> NoTable] : s \in {0, 404, 429, 500}}
    \cup {[status |-> 200, parse |-> p, table |-> NoTable] : p \in {"emptylist", "valueerror"}}
    \cup {[status |-> 200, parse |-> "tables", table |-> t] : t \in Tables}

ReasonPhrase(status) ==
    CASE status = 404 -> <<"N","o","t"," ","F","o","u","n","d">>
      [] status = 429 -> <<"T","o","o"," ","M","a","n","y"," ","R","e","q","u","e","s","t","s">>
      [] OTHER -> <<"I","n","t","e","r","n","a","l"," ","S","e","r","v","e","r"," ","E","r","r","o","r">>

\* str(e) of the HTTPError that response.raise_for_status() raises
HttpErrorMsg(status, url) ==
    Digits(status)
    \o (IF status < 500
        THEN <<" ","C","l","i","e","n","t"," ","E","r","r","o","r",":"," ">>
        ELSE <<" ","S","e","r","v","e","r"," ","E","r","r","o","r",":"," ">>)
    \o ReasonPhrase(status)
    \o <<" ","f","o","r"," ","u","r","l",":"," ">>
    \o url

\* the exception classes met here; all derive from Exception
ExceptionClasses == {"HTTPError", "ConnectionError", "ValueError", "KeyError", "IndexError"}

\* the frame of a call at the head of its for loop
ScrapeStart(url, retries, delay) ==
    [url |-> url, retries |-> retries, delay0 |-> delay, delay |-> delay,
     attempt |-> 0, events |-> <<>>, state |-> "loop", result |-> NoTable,
     exc |-> "none"]

\* what the call did, in order: a GET (arg: the status, table: the tables
\* parsed from the body), a SLEEP (arg: the seconds), a LOG (arg: which print)
Ev(op, arg, table) == [op |-> op, arg |-> arg, table |-> table]

\* `return pd.DataFrame()` after the loop
ReturnEmpty(s, events) ==
    [s EXCEPT !.events = events, !.state = "returned", !.result = NoTable]

\* `continue`, or the end of the loop body: the next iteration
NextAttempt(s, events, delay) ==
    [s EXCEPT !.events = events, !.delay = delay, !.attempt = s.attempt + 1]

\* an exception leaves the function
Propagate(s, events, exc) ==
    [s EXCEPT !.events = events, !.state = "raised", !.exc = exc]

\* the try body: the exception requests.get, raise_for_status or
\* pd.read_html raises, or "none"
TryBody(resp) ==
    IF resp.status = 0 THEN "ConnectionError"
    ELSE IF resp.status >= 400 THEN "HTTPError"
    ELSE IF resp.parse = "valueerror" THEN "ValueError"
    ELSE "none"

\* On429 without `delay += 5`
On429_NoBackoff(s, events) ==
    NextAttempt(s, events \o <<Ev("LOG", 429, NoTable), Ev("SLEEP", s.delay, NoTable)>>,
                s.delay)

\* `if "429" in str(e)`: print, time.sleep(delay), delay += 5, continue;
\* time.sleep raises ValueError on a negative argument, inside the handler
On429(s, events) ==
    IF s.delay < 0
    THEN Propagate(s, Append(events, Ev("LOG", 429, NoTable)), "ValueError")
    ELSE NextAttempt(s, events \o <<Ev("LOG", 429, NoTable), Ev("SLEEP", s.delay, NoTable)>>,
                     s.delay + DelayStep)

\* the clause `except requests.exceptions.HTTPError as e`
OnHttpError(s, events, status) ==
    LET msg == HttpErrorMsg(status, s.url) IN
    IF Contains(msg, <<"4","2","9">>)
    THEN On429(s, events)
    ELSE IF Contains(msg, <<"4","0","4">>)
    THEN ReturnEmpty(s, Append(events, Ev("LOG", 404, NoTable)))
    ELSE ReturnEmpty(s, Append(events, Ev("LOG", 1, NoTable)))

\* CaughtByException as if the clause were `except ValueError`
CaughtByException_OnlyValueError(exc) == exc = "ValueError"

\* whether the clause `except Exception as e` catches exc
CaughtByException(exc) == exc \in ExceptionClasses

\* one iteration of the for loop, the GET answered by resp
ScrapeStep(s, resp) ==
    LET events == Append(s.events, Ev("GET", resp.status, resp.table))
        exc == TryBody(resp)
    IN  IF exc = "none"
        THEN IF resp.parse = "tables"
             THEN [s EXCEPT !.events = events, !.state = "returned",
                            !.result = resp.table]
             ELSE NextAttempt(s, events, s.delay)
        ELSE IF exc = "HTTPError"
        THEN OnHttpError(s, events, resp.status)
        ELSE IF CaughtByException(exc)
        THEN ReturnEmpty(s, Append(events, Ev("LOG", 0, NoTable)))
        ELSE Propagate(s, events, exc)

\* the for loop has run `retries` iterations
Exhausted(s) == s.state = "loop" /\ s.attempt >= s.retries

----------------------------------------------------------------------------
(* Tickers and urls.                                                       *)

\* what text_box.get("1.0", tk.END) may return (Tk appends a newline)
RawInputs ==
    { <<"\n">>,
      <<",","\n">>,
      <<"a","b","c","\n">>,
      <<"B","R","K",".","B",",","b","r","k","_","b","\n">>,
      <<"4","2","9","0",".","t","\n"," ","a","b","c"," ","\n">>,
      <<"a","b","c",","," ","a","b","c","\n">> }

RECURSIVE StripUpperAll(_)
StripUpperAll(lines) ==
    IF lines = <<>> THEN <<>>
    ELSE (IF Strip(Head(lines)) # <<>> THEN <<ToUpper(Strip(Head(lines)))>> ELSE <<>>)
         \o StripUpperAll(Tail(lines))

\* [t.strip().upper() for t in raw_input.replace(",", "\n").splitlines() if t.strip()]
parse_tickers(raw_input) == StripUpperAll(SplitLines(Replace(raw_input, ",", "\n")))

\* the tickers the inputs hold
Tickers ==
    UNION {{parse_tickers(Strip(text))[i] :
                i \in 1..Len(parse_tickers(Strip(text)))} : text \in RawInputs}

stats_url(ticker) ==
    <<"h","t","t","p","s",":","/","/","f","i","n","a","n","c","e",".","y","a","h","o","o",".","c","o","m","/","q","u","o","t","e","/">>
    \o ticker
    \o <<"/","k","e","y","-","s","t","a","t","i","s","t","i","c","s","?","p","=">>
    \o ticker

analysis_url(ticker) ==
    <<"h","t","t","p","s",":","/","/","f","i","n","a","n","c","e",".","y","a","h","o","o",".","c","o","m","/","q","u","o","t","e","/">>
    \o ticker
    \o <<"/","a","n","a","l","y","s","i","s","/">>

Urls == {stats_url(t) : t \in Tickers} \cup {analysis_url(t) : t \in Tickers}

----------------------------------------------------------------------------
(* SpecScrape: one call of scrape_yahoo_tables.                            *)

NoFrame == [ticker |-> <<>>]

InitRest ==
    /\ pc = "idle"
    /\ tickers = <<>>
    /\ idx = 0
    /\ loc = NoFrame
    /\ raised = "none"
    /\ clock = 0
    /\ files = {}
    /\ calls = <<>>
    /\ failures = <<>>
    /\ dialog = "none"

InitScrape ==
    /\ \E url \in Urls, retries \in 0..MaxRetries, delay \in 0..MaxDelay :
           sc = ScrapeStart(url, retries, delay)
    /\ InitRest

ScrapeAttempt ==
    /\ sc.state = "loop"
    /\ ~Exhausted(sc)
    /\ \E resp \in Responses : sc' = ScrapeStep(sc, resp)
    /\ UNCHANGED <<pc, tickers, idx, loc, raised, clock, files, calls, failures, dialog>>

ScrapeExhaust ==
    /\ Exhausted(sc)
    /\ sc' = ReturnEmpty(sc, sc.events)
    /\ UNCHANGED <<pc, tickers, idx, loc, raised, clock, files, calls, failures, dialog>>

NextScrape == ScrapeAttempt \/ ScrapeExhaust

SpecScrape == InitScrape /\ [][NextScrape]_vars

----------------------------------------------------------------------------
(* fetch_and_export.                                                       *)

OUTPUT_DIR == <<"e","x","p","o","r","t","s">>

\* what an attribute of yf.Ticker holds: a table or mapping with data, or
\* nothing usable (None, an empty frame, an empty mapping)
ProviderValues == {"data", "nothing"}

\* the provider's answer for one ticker
ProviderAnswers ==
    [history : ProviderValues, balance_sheet : ProviderValues,
     financials : ProviderValues, cashflow : ProviderValues,
     info : ProviderValues, calendar : ProviderValues]

\* safe_df, and the isinstance(..., dict) tests: TRUE iff the normalised
\* value is non-empty
safe_df(v) == v = "data"

\* the outcomes of a whole call of scrape_yahoo_tables from frame s
RECURSIVE ScrapeRuns(_)
ScrapeRuns(s) ==
    IF s.state # "loop" THEN {s}
    ELSE IF Exhausted(s) THEN {ReturnEmpty(s, s.events)}
    ELSE UNION {ScrapeRuns(ScrapeStep(s, resp)) : resp \in Responses}

RECURSIVE SumSleeps(_)
SumSleeps(evs) ==
    IF evs = <<>> THEN 0
    ELSE (IF Head(evs).op = "SLEEP" THEN Head(evs).arg ELSE 0) + SumSleeps(Tail(evs))

\* scrape_yahoo_tables(url) with the default retries and delay: what the
\* caller sees of each outcome (the table, an exception) and the seconds
\* the call slept
scrape_yahoo_tables(url) ==
    {[result |-> s.result, exc |-> s.exc, slept |-> SumSleeps(s.events)] :
        s \in ScrapeRuns(ScrapeStart(url, DefaultRetries, DefaultDelay))}

\* datetime.now().strftime("%Y%m%d_%H%M%S"), the clock in seconds after
\* midnight of one day
strftime(t) ==
    <<"2","0","2","4","0","1","0","1","_">>
    \o TwoDigits(t \div 3600) \o TwoDigits((t % 3600) \div 60) \o TwoDigits(t % 60)

\* os.path.join(OUTPUT_DIR, f"{ticker.replace('.', '_')}_YahooFinanceData_{timestamp}.xlsx")
filepath(ticker, timestamp) ==
    OUTPUT_DIR \o <<"/">> \o Replace(ticker, ".", "_")
    \o <<"_","Y","a","h","o","o","F","i","n","a","n","c","e","D","a","t","a","_">>
    \o timestamp \o <<".","x","l","s","x">>

\* pd.ExcelWriter(filepath): no sheet written, no exception raised
NewWriter == [sheets |-> <<>>, raised |-> "none"]

\* a sheet: its name and its column headers, the table's own or relabelled
Sheet(name, columns) == [name |-> name, columns |-> columns]

\* `if <nonempty>: df.to_excel(writer, sheet_name=name)`
to_excel(w, nonempty, name, columns) ==
    IF w.raised # "none" \/ ~nonempty THEN w
    ELSE [w EXCEPT !.sheets = Append(@, Sheet(name, columns))]

\* `worksheet = writer.sheets[name]` and the number format loop after it:
\* KeyError when no sheet of that name was written
format_sheet(w, name) ==
    IF w.raised # "none" THEN w
    ELSE IF \E i \in 1..Len(w.sheets) : w.sheets[i].name = name THEN w
    ELSE [w EXCEPT !.raised = "KeyError"]

\* the Analysis block: `if columns[0] == 0: columns = ["Metric", "Value"]`
\* raises ValueError (length mismatch) unless the table has two columns
analysis_to_excel(w, table) ==
    IF w.raised # "none" \/ table = NoTable THEN w
    ELSE IF table.header = "positional"
    THEN IF table.ncols = 2
         THEN to_excel(w, TRUE, "Analysis", "Metric,Value")
         ELSE [w EXCEPT !.raised = "ValueError"]
    ELSE to_excel(w, TRUE, "Analysis", "own")

\* the body of `with pd.ExcelWriter(...) as writer:`
write_sheets(l) ==
    LET w1 == to_excel(NewWriter, l.info_df, "Company_Info", "own")
        w2 == to_excel(w1, l.history_df, "Price_History", "own")
        w3 == to_excel(w2, l.balance_sheet_df, "Balance_Sheet", "own")
        w4 == format_sheet(w3, "Balance_Sheet")
        w5 == to_excel(w4, l.financials_df, "Income_Stmnt", "own")
        w6 == format_sheet(w5, "Income_Stmnt")
        w7 == to_excel(w6, l.cashflow_df, "Cashflow", "own")
        w8 == format_sheet(w7, "Cashflow")
        w9 == to_excel(w8, l.calendar_data, "Calendar", "own")
        w10 == to_excel(w9, l.yahoo_stats_df # NoTable, "Key_Statistics", "own")
    IN  analysis_to_excel(w10, l.yahoo_analysis_df)

\* ExcelWriter.__exit__: the workbook is saved with the sheets written so
\* far, whether or not the body raised; openpyxl refuses to save a workbook
\* without a sheet (IndexError) and leaves a file that is no workbook
close_writer(w) ==
    IF w.sheets = <<>>
    THEN [sheets |-> <<>>, raised |-> "IndexError", saved |-> FALSE]
    ELSE [sheets |-> w.sheets, raised |-> w.raised, saved |-> TRUE]

\* the frame of fetch_and_export(ticker) when it returns or raises: the
\* provider answered `ans`, the two scrapes ended as `st` and `an`, and the
\* clock read `now` at the call of datetime.now()
fetch_and_export(ticker, ans, st, an, now) ==
    LET l == [ticker |-> ticker,
              history_df |-> safe_df(ans.history),
              balance_sheet_df |-> safe_df(ans.balance_sheet),
              financials_df |-> safe_df(ans.financials),
              cashflow_df |-> safe_df(ans.cashflow),
              info_df |-> safe_df(ans.info),
              calendar_data |-> safe_df(ans.calendar),
              yahoo_stats_df |-> st.result,
              yahoo_analysis_df |-> an.result,
              filepath |-> filepath(ticker, strftime(now))]
        w == close_writer(write_sheets(l))
    IN  [ticker |-> l.ticker, history_df |-> l.history_df,
         balance_sheet_df |-> l.balance_sheet_df,
         financials_df |-> l.financials_df, cashflow_df |-> l.cashflow_df,
         info_df |-> l.info_df, calendar_data |-> l.calendar_data,
         yahoo_stats_df |-> l.yahoo_stats_df,
         yahoo_analysis_df |-> l.yahoo_analysis_df,
         filepath |-> l.filepath,
         sheets |-> w.sheets, saved |-> w.saved, raised |-> w.raised]

\* the files after a writer on `path` is closed by call number n: the file
\* is created or replaced; `saved` tells whether it holds a workbook
write_file(fs, path, saved, n) ==
    {f \in fs : f.path # path} \cup {[path |-> path, saved |-> saved, call |-> n]}

\* what the caller of fetch_and_export(ticker) can see of each of its
\* outcomes: the exception, whether a workbook was saved, and the seconds
\* the call took up to datetime.now()
FetchOutcomes ==
    [ticker \in Tickers |->
        {[raised |-> fetch_and_export(ticker, ans, st, an, 0).raised,
          saved |-> fetch_and_export(ticker, ans, st, an, 0).saved,
          took |-> elapsed + st.slept + an.slept] :
            ans \in ProviderAnswers, elapsed \in 0..MaxElapsed,
            st \in scrape_yahoo_tables(stats_url(ticker)),
            an \in scrape_yahoo_tables(analysis_url(ticker))}]

----------------------------------------------------------------------------
(* The form: on_fetch_batch.                                               *)

\* loop_next stepping over the ticker after the current one
loop_next_skip(i, n) ==
    IF i + 1 < n THEN [pc |-> "call", idx |-> i + 2, dialog |-> "same"]
    ELSE [pc |-> "done", idx |-> i, dialog |-> "Done"]

\* the for loop after the call for tickers[i] of n: the next ticker, or
\* the completion dialog
loop_next(i, n) ==
    IF i < n THEN [pc |-> "call", idx |-> i + 1, dialog |-> "same"]
    ELSE [pc |-> "done", idx |-> i, dialog |-> "Done"]

Init ==
    /\ sc = ScrapeStart(<<>>, 0, 0)
    /\ InitRest

\* the button is clicked with `text` in the text box
OnFetchBatch ==
    /\ pc = "idle"
    /\ \E text \in RawInputs :
          LET raw_input == Strip(text)
              parsed == parse_tickers(raw_input)
          IN  IF raw_input = <<>>
              THEN /\ dialog' = "Error: Please enter one or more company tickers."
                   /\ UNCHANGED <<pc, tickers, idx>>
              ELSE IF parsed = <<>>
              THEN /\ dialog' = "Error: No valid tickers found."
                   /\ UNCHANGED <<pc, tickers, idx>>
              ELSE /\ tickers' = parsed
                   /\ idx' = 1
                   /\ pc' = "call"
                   /\ UNCHANGED dialog
    /\ UNCHANGED <<sc, loc, raised, clock, files, calls, failures>>

\* the try body of the loop: fetch_and_export(ticker), start to end, as
\* the loop sees it
FetchAndExport ==
    /\ pc = "call"
    /\ LET ticker == tickers[idx] IN
       \E o \in FetchOutcomes[ticker] :
          LET now == clock + o.took
              path == filepath(ticker, strftime(now))
          IN  /\ clock' = now
              /\ files' = write_file(files, path, o.saved, Len(calls) + 1)
              /\ calls' = Append(calls, [ticker |-> ticker, filepath |-> path])
              /\ raised' = o.raised
    /\ pc' = "returned"
    /\ UNCHANGED <<sc, tickers, idx, loc, failures, dialog>>

\* the call returned or raised: `except Exception` logs a failure, and the
\* loop goes on or the handler shows "Done"
LoopNext ==
    /\ pc = "returned"
    /\ IF raised = "none" \/ CaughtByException(raised)
       THEN LET nxt == loop_next(idx, Len(tickers)) IN
            /\ pc' = nxt.pc
            /\ idx' = nxt.idx
            /\ dialog' = IF nxt.dialog = "same" THEN dialog ELSE nxt.dialog
       ELSE /\ pc' = "aborted"
            /\ UNCHANGED <<idx, dialog>>
    /\ failures' = IF raised = "none" THEN failures
                   ELSE Append(failures, tickers[idx])
    /\ raised' = "none"
    /\ loc' = NoFrame
    /\ UNCHANGED <<sc, tickers, clock, files, calls>>

Next == OnFetchBatch \/ FetchAndExport \/ LoopNext

Spec == Init /\ [][Next]_vars

----------------------------------------------------------------------------
(* SpecExport: one call of fetch_and_export, its frame kept.               *)

InitExport ==
    /\ sc = ScrapeStart(<<>>, 0, 0)
    /\ \E ticker \in Tickers : tickers = <<ticker>>
    /\ pc = "call"
    /\ idx = 1
    /\ loc = NoFrame
    /\ raised = "none"
    /\ clock = 0
    /\ files = {}
    /\ calls = <<>>
    /\ failures = <<>>
    /\ dialog = "none"

\* fetch_and_export(ticker), start to end
ExportCall ==
    /\ pc = "call"
    /\ LET ticker == tickers[idx] IN
       \E ans \in ProviderAnswers, elapsed \in 0..MaxElapsed,
          st \in scrape_yahoo_tables(stats_url(ticker)),
          an \in scrape_yahoo_tables(analysis_url(ticker)) :
             LET now == clock + elapsed + st.slept + an.slept
                 l == fetch_and_export(ticker, ans, st, an, now)
             IN  /\ loc' = l
                 /\ clock' = now
                 /\ files' = write_file(files, l.filepath, l.saved, Len(calls) + 1)
                 /\ calls' = Append(calls, [ticker |-> ticker, filepath |-> l.filepath])
                 /\ raised' = l.raised
    /\ pc' = "returned"
    /\ UNCHANGED <<sc, tickers, idx, failures, dialog>>

NextExport == ExportCall \/ LoopNext

SpecExport == InitExport /\ [][NextExport]_vars

----------------------------------------------------------------------------
(* Properties of scrape_yahoo_tables, under SpecScrape.                    *)

IsGet(e) == e.op = "GET"
IsSleep(e) == e.op = "SLEEP"
IsGetOrSleep(e) == e.op \in {"GET", "SLEEP"}

\* the GETs, the sleeps, and both, of the running call, in order
Gets == SelectSeq(sc.events, IsGet)
Sleeps == SelectSeq(sc.events, IsSleep)
GetsAndSleeps == SelectSeq(sc.events, IsGetOrSleep)

RECURSIVE SumArgs(_)
SumArgs(evs) == IF evs = <<>> THEN 0 ELSE Head(evs).arg + SumArgs(Tail(evs))

\* the call was made with the defaults retries=3, delay=5
DefaultCall == sc.retries = DefaultRetries /\ sc.delay0 = DefaultDelay

\* the call is over and every GET of it was answered 429
Always429 ==
    /\ sc.state # "loop"
    /\ sc.retries > 0
    /\ \A i \in 1..Len(Gets) : Gets[i].arg = 429

\* C3, as stated: a default call against a url that answers 429 on every
\* attempt makes 3 GETs, returns the empty table and sleeps exactly twice,
\* 5 then 10 seconds, with no sleep after the final attempt.
C3_TwoSleeps ==
    (DefaultCall /\ Always429) =>
        /\ sc.state = "returned" /\ sc.result = NoTable
        /\ Len(Gets) = 3
        /\ Len(Sleeps) = 2
        /\ Sleeps[1].arg = 5 /\ Sleeps[2].arg = 10
        /\ GetsAndSleeps[Len(GetsAndSleeps)].op = "GET"

\* C3, amended: a default call against a url that answers 429 on every
\* attempt makes 3 GETs, returns the empty table and sleeps exactly three
\* times, one sleep right after each 429: 5, 10 and 15 seconds, the last
\* one after the final attempt.
C3_ThreeSleeps ==
    (DefaultCall /\ Always429) =>
        /\ sc.state = "returned" /\ sc.result = NoTable
        /\ Len(Gets) = 3
        /\ Len(GetsAndSleeps) = 6
        /\ \A k \in 1..3 :
              /\ GetsAndSleeps[2 * k - 1].op = "GET"
              /\ GetsAndSleeps[2 * k].op = "SLEEP"
              /\ GetsAndSleeps[2 * k].arg = 5 * k

C3_Witness ==
    /\ DefaultCall /\ Always429
    /\ sc.state = "returned"
    /\ Len(Gets) = 3 /\ Len(Sleeps) = 3

\* C4, as stated: if the first response to scrape_yahoo_tables(url) is an
\* HTTP error status other than 429, the call issues no further GET and no
\* sleep and returns the empty table, whatever the url.
C4_NoRetryOnOtherStatus ==
    (DefaultCall /\ Len(Gets) > 0 /\ Gets[1].arg >= 400 /\ Gets[1].arg # 429) =>
        /\ Len(Gets) = 1
        /\ Len(Sleeps) = 0
        /\ sc.state = "returned" /\ sc.result = NoTable

\* C5: no exception leaves scrape_yahoo_tables, whatever the responses and
\* retries; a call that returns returns a non-empty table exactly when one
\* of its attempts got a 2xx response with tables, the empty table otherwise.
C5_NeverRaises ==
    /\ sc.state # "raised"
    /\ sc.state = "returned" =>
          (sc.result # NoTable <=> \E i \in 1..Len(Gets) : Gets[i].table # NoTable)

\* a call that was retried after a 429, met a network error on its second
\* GET and returned the empty table
C5_Witness ==
    /\ sc.state = "returned"
    /\ sc.result = NoTable
    /\ Len(Gets) = 2
    /\ Gets[1].arg = 429
    /\ Gets[2].arg = 0

\* C9, as stated: a call issues at most `retries` GETs; a further GET is
\* issued only after a 429 response; the first 2xx response with tables
\* ends the call.
C9_RetryOnlyAfter429 ==
    /\ Len(Gets) <= sc.retries
    /\ \A i \in 1..(Len(Gets) - 1) : Gets[i].arg = 429
    /\ \A i \in 1..Len(Gets) :
          Gets[i].table # NoTable => (i = Len(Gets) /\ sc.state = "returned")

\* C10, as stated: in a default call a sleep happens only right after a 429
\* response, the k-th sleep lasts 5*k seconds and the sleeps of the call
\* total at most 30 seconds.
C10_SleepOnlyAfter429 ==
    DefaultCall =>
        /\ \A i \in 1..Len(GetsAndSleeps) :
              GetsAndSleeps[i].op = "SLEEP" =>
                  /\ i > 1
                  /\ GetsAndSleeps[i - 1].op = "GET"
                  /\ GetsAndSleeps[i - 1].arg = 429
        /\ \A k \in 1..Len(Sleeps) : Sleeps[k].arg = 5 * k
        /\ SumArgs(Sleeps) <= 30

----------------------------------------------------------------------------
(* Properties of fetch_and_export, under SpecExport.                       *)

\* the call of fetch_and_export is over and its frame is in loc
Exported == pc = "returned"

\* the sheet names in the fixed order, and whether the source of the k-th
\* is non-empty in frame l
SheetOrder ==
    <<"Company_Info", "Price_History", "Balance_Sheet", "Income_Stmnt",
      "Cashflow", "Calendar", "Key_Statistics", "Analysis">>

SourceNonEmpty(l, k) ==
    CASE k = 1 -> l.info_df
      [] k = 2 -> l.history_df
      [] k = 3 -> l.balance_sheet_df
      [] k = 4 -> l.financials_df
      [] k = 5 -> l.cashflow_df
      [] k = 6 -> l.calendar_data
      [] k = 7 -> l.yahoo_stats_df # NoTable
      [] k = 8 -> l.yahoo_analysis_df # NoTable

EmptySources(l) == {k \in 1..8 : ~SourceNonEmpty(l, k)}

\* the names of the sheets whose source is non-empty, in the fixed order
RECURSIVE ExpectedFrom(_, _)
ExpectedFrom(l, k) ==
    IF k > 8 THEN <<>>
    ELSE (IF SourceNonEmpty(l, k) THEN <<SheetOrder[k]>> ELSE <<>>)
         \o ExpectedFrom(l, k + 1)

SheetNames(l) == [i \in 1..Len(l.sheets) |-> l.sheets[i].name]

\* the analysis table of frame l is empty, has a named header, or has the
\* two columns the relabelling assumes
AnalysisFits(l) ==
    \/ l.yahoo_analysis_df = NoTable
    \/ l.yahoo_analysis_df.header = "named"
    \/ l.yahoo_analysis_df.ncols = 2

\* C1, as stated, on the calls whose analysis table fits its relabelling:
\* when exactly one of the eight sources is empty, fetch_and_export does
\* not raise, and the workbook holds every sheet but that source's.
C1_SingleEmptySourceDoesNotRaise ==
    (Exported /\ AnalysisFits(loc) /\ Cardinality(EmptySources(loc)) = 1) =>
        /\ loc.raised = "none"
        /\ SheetNames(loc) = ExpectedFrom(loc, 1)

\* C2, as stated, on the calls whose analysis table fits its relabelling:
\* after fetch_and_export the workbook holds exactly the sheets whose source
\* is non-empty, in the fixed order.
C2_SheetsAreTheNonEmptySources ==
    (Exported /\ AnalysisFits(loc)) =>
        /\ loc.saved
        /\ SheetNames(loc) = ExpectedFrom(loc, 1)

\* the three statement tables are non-empty: the with block reaches the
\* Analysis lines
ReachesAnalysis(l) == l.balance_sheet_df /\ l.financials_df /\ l.cashflow_df

\* C8, as stated, on the calls that reach the Analysis lines: a non-empty
\* analysis table is written as the last sheet, Analysis, whatever its
\* number of columns, relabelled Metric, Value when its first header is the
\* positional index 0 and with its own headers otherwise.
C8_AnalysisSheetAlwaysWritten ==
    (Exported /\ ReachesAnalysis(loc) /\ loc.yahoo_analysis_df # NoTable) =>
        /\ loc.sheets # <<>>
        /\ loc.sheets[Len(loc.sheets)] =
              Sheet("Analysis",
                    IF loc.yahoo_analysis_df.header = "positional"
                    THEN "Metric,Value" ELSE "own")

----------------------------------------------------------------------------
(* Properties of the batch loop, under Spec.                               *)

CalledTickers == [i \in 1..Len(calls) |-> calls[i].ticker]

\* on_fetch_batch is over
HandlerEnded == pc \in {"done", "aborted"}

\* C6: the loop invokes fetch_and_export once per ticker, in list order,
\* whichever invocations raise: the invocations so far are always those for
\* the first tickers of the list, the handler ends only after the one for
\* the last ticker, and the completion dialog is shown then and only then.
C6_EveryTickerOnceInOrder ==
    /\ Len(calls) <= Len(tickers)
    /\ CalledTickers = SubSeq(tickers, 1, Len(calls))
    /\ pc = "call" => Len(calls) = idx - 1
    /\ pc = "returned" => Len(calls) = idx
    /\ HandlerEnded => (CalledTickers = tickers /\ dialog = "Done")
    /\ dialog = "Done" => (pc = "done" /\ CalledTickers = tickers)

\* a batch of two in which the first invocation raised and the second did
\* not, and the dialog is up
C6_Witness ==
    /\ pc = "done"
    /\ dialog = "Done"
    /\ Len(tickers) = 2
    /\ Len(calls) = 2
    /\ failures = <<tickers[1]>>

\* C7, as stated: no two invocations of fetch_and_export compute the same
\* output path, and none replaces a file an earlier one wrote: there are as
\* many files as invocations.
C7_PathsUnique ==
    /\ \A i, j \in 1..Len(calls) : i # j => calls[i].filepath # calls[j].filepath
    /\ Cardinality(files) = Len(calls)

====
